---- MODULE Spec2Model ----
(***************************************************************************)
(* A model of haturatu/autotagger.                                         *)
(*                                                                         *)
(*   Spec        the dispatch pool (app.py, AutotaggerRunner) with its     *)
(*               replicas (autotagger.py, Autotagger.predict), driven by   *)
(*               concurrent caller threads.  Every statement of the code   *)
(*               that touches shared state is one step.                    *)
(*   FairSpec    Spec with every thread scheduled in the end.              *)
(*   WorkerSpec  the line-oriented worker (inference_worker.py, main), a   *)
(*               single thread reading requests from its input stream.     *)
(*   RankSpec    one call of _process_scores (autotagger.py), the ranking  *)
(*               of one image's scores.                                    *)
(***************************************************************************)
EXTENDS Integers, Sequences, FiniteSets, TLC

\* ---------------------------------------------------------------- bounds
NumCallers == 2        \* concurrent caller threads of AutotaggerRunner.predict
MaxParallelism == 2    \* largest GPU_PARALLELISM tried
MaxCalls == 3          \* calls of AutotaggerRunner.predict in one run
MaxLines == 2          \* lines on the worker's input stream
MaxVocab == 3          \* longest vocabulary
MaxScore == 2          \* scores and thresholds are 0..MaxScore (a scaled [0,1])

Callers == 1..NumCallers
Min(a, b) == IF a <= b THEN a ELSE b
NoTagger == 0 - 1
Running == 0 - 1     \* main has not returned

VARIABLES
    \* AutotaggerRunner
    is_gpu,            \* self.is_gpu
    gpu_parallelism,   \* the configured parallelism (app.py:18)
    taggers,           \* self._taggers: sequence of replica states
    index,             \* self._index
    lock,              \* self._lock: 0 when free, else the holder
    queue,             \* the executor's work queue (callers whose task waits)
    \* one caller thread and the task it submitted
    pc,                \* where the caller (or its task) stands
    tagger,            \* local `tagger`: the index of the replica handed out
    hasFiles,          \* whether `images` is non-empty
    viaExecutor,       \* whether the call was submitted to the executor
    amp,               \* the branch taken at autotagger.py:69
    err,               \* the exception in flight
    att,               \* outcomes of this request's get_preds calls, in order
    result,            \* what the caller gets back
    startedDemoted,    \* the replica was fully on the cpu when this call began
    \* history
    selections,        \* replica indices in the order the lock handed them out
    ncalls,            \* calls made so far
    demotions,         \* per replica: how often autotagger.py:78 has run
    \* inference_worker.py
    wpc,               \* where main stands
    wlen,              \* number of lines the input stream holds
    wread,             \* lines read so far
    wline,             \* local `line`
    req_id,            \* local `req_id`
    wreq,              \* local `req`
    werr,              \* the exception caught at inference_worker.py:52
    wres,              \* local `res`
    wout,              \* the response lines written to stdout
    wtagger,           \* the worker's Autotagger
    wrc,               \* main's return code, Running until it returns
    wlog,              \* history: for each line read, whether it is blank and its id
    \* _process_scores
    rpc,               \* where _process_scores stands
    scores,            \* argument `scores`, one per vocabulary entry
    threshold,         \* argument `threshold`
    limit,             \* argument `limit`
    df,                \* local `df`: rows of tag and score
    rout               \* the dict returned, in insertion order

poolVars == <<is_gpu, gpu_parallelism, taggers, index, lock, queue, pc, tagger,
              hasFiles, viaExecutor, amp, err, att, result, startedDemoted,
              selections, ncalls, demotions>>
workerVars == <<wpc, wlen, wread, wline, req_id, wreq, werr, wres, wout, wtagger,
                wrc, wlog>>
rankVars == <<rpc, scores, threshold, limit, df, rout>>
vars == <<poolVars, workerVars, rankVars>>

\* ------------------------------------------------------- replica (Autotagger)
\* Autotagger.__init__ / init_model: the device is chosen once, from whether
\* an accelerator is available; use_amp follows the device.
InitTagger(cuda) ==
    [device |-> IF cuda THEN "cuda" ELSE "cpu",
     use_amp |-> cuda,
     num_workers |-> 0,
     dls_dev |-> IF cuda THEN "cuda" ELSE "cpu",
     model_dev |-> IF cuda THEN "cuda" ELSE "cpu"]

NumTaggers == Len(taggers)
Tg(i) == taggers[i + 1]
FullyCpu(tg) ==
    /\ tg.device = "cpu"
    /\ ~tg.use_amp
    /\ tg.dls_dev = "cpu"
    /\ tg.model_dev = "cpu"

\* The statements of Autotagger.predict a task can be executing.
ScoringPCs == {"l58", "l69", "get_preds", "l76", "l78", "l79", "l80", "l81",
               "l82", "l86", "l88"}
TransitionPCs == {"l79", "l80", "l81", "l82"}

\* ThreadPoolExecutor(max_workers = len(self._taggers)): tasks being run.
BusyWorkers == Cardinality({t \in Callers : viaExecutor[t] /\ pc[t] \in ScoringPCs})

\* The outcomes of learn.get_preds: it returns the scores, or raises a
\* RuntimeError of the accelerator runtime ("cuda" in its message), another
\* RuntimeError, or an exception of another class.  An accelerator error
\* needs the accelerator to be involved in the call.
Outcomes(tg, autocast) ==
    {"ok", "runtime_err", "other_err"}
        \cup (IF tg.model_dev = "cuda" \/ tg.dls_dev = "cuda" \/ autocast
              THEN {"cuda_err"} ELSE {})

\* ------------------------------------------------------------------ Init
NoLine == [ws |-> "", kind |-> "none", id |-> "-", files |-> "-",
           threshold |-> "-", limit |-> "-"]
NoRes == [id |-> "None", kind |-> "none", n |-> 0, preds |-> <<>>, calls |-> 0]

\* The worker process is not part of the pool's runs.
WorkerOff ==
    /\ wpc = "off" /\ wlen = 0 /\ wread = 0 /\ wline = NoLine /\ req_id = "None"
    /\ wreq = NoLine /\ werr = "none" /\ wres = NoRes /\ wout = <<>>
    /\ wtagger = InitTagger(FALSE) /\ wrc = Running /\ wlog = <<>>

\* A pool built with as many replicas as configured, whatever the device.
NumReplicasAll(cuda, n) == n

\* app.py:29-35: the probe and gpu_parallelism - 1 more replicas on the
\* accelerator, the probe alone otherwise.
NumReplicas(cuda, n) == IF cuda THEN n ELSE 1

\* AutotaggerRunner.__init__ (app.py:22-35): one replica on the cpu, or
\* gpu_parallelism replicas and an executor of as many workers.
PoolInit ==
    /\ is_gpu \in BOOLEAN
    /\ gpu_parallelism \in 1..MaxParallelism
    /\ taggers = [i \in 1..NumReplicas(is_gpu, gpu_parallelism) |-> InitTagger(is_gpu)]
    /\ index = 0
    /\ lock = 0
    /\ queue = <<>>
    /\ pc = [t \in Callers |-> "idle"]
    /\ tagger = [t \in Callers |-> NoTagger]
    /\ hasFiles = [t \in Callers |-> FALSE]
    /\ viaExecutor = [t \in Callers |-> FALSE]
    /\ amp = [t \in Callers |-> FALSE]
    /\ err = [t \in Callers |-> "none"]
    /\ att = [t \in Callers |-> <<>>]
    /\ result = [t \in Callers |-> "none"]
    /\ startedDemoted = [t \in Callers |-> FALSE]
    /\ selections = <<>>
    /\ ncalls = 0
    /\ demotions = [i \in 1..Len(taggers) |-> 0]

\* _process_scores is not being run.
RankOff ==
    /\ rpc = "off" /\ scores = <<>> /\ threshold = 0 /\ limit = 0
    /\ df = <<>> /\ rout = <<>>

Init == PoolInit /\ WorkerOff /\ RankOff

\* ----------------------------------------------------------------- evaluate
\* app.py:70 / app.py:72: float() or int() of a threshold or limit that is
\* no number raises ValueError, before autotagger.predict is reached.
BadNumber(t) ==
    /\ pc[t] = "idle"
    /\ ncalls < MaxCalls
    /\ ncalls' = ncalls + 1
    /\ pc' = [pc EXCEPT ![t] = "l70"]
    /\ UNCHANGED <<is_gpu, gpu_parallelism, taggers, index, lock, queue, tagger,
                   hasFiles, viaExecutor, amp, err, att, result, startedDemoted,
                   selections, demotions, workerVars, rankVars>>

\* ------------------------------------------------ AutotaggerRunner.predict
\* A caller thread enters AutotaggerRunner.predict(images, threshold, limit).
Call(t) ==
    /\ pc[t] = "idle"
    /\ ncalls < MaxCalls
    /\ \E f \in BOOLEAN : hasFiles' = [hasFiles EXCEPT ![t] = f]
    /\ ncalls' = ncalls + 1
    /\ pc' = [pc EXCEPT ![t] = "l38"]
    /\ UNCHANGED <<is_gpu, gpu_parallelism, taggers, index, lock, queue, tagger,
                   viaExecutor, amp, err, att, result, startedDemoted,
                   selections, demotions, workerVars, rankVars>>

\* An entry into _next_tagger that does not take the lock.
AcquireNoLock(t) ==
    /\ pc[t] = "l38"
    /\ pc' = [pc EXCEPT ![t] = "l39"]
    /\ UNCHANGED <<is_gpu, gpu_parallelism, taggers, index, lock, queue, tagger,
                   hasFiles, viaExecutor, amp, err, att, result, startedDemoted,
                   selections, ncalls, demotions, workerVars, rankVars>>

\* _next_tagger, app.py:38: with self._lock (acquire).
Acquire(t) ==
    /\ pc[t] = "l38"
    /\ lock = 0
    /\ lock' = t
    /\ pc' = [pc EXCEPT ![t] = "l39"]
    /\ UNCHANGED <<is_gpu, gpu_parallelism, taggers, index, queue, tagger,
                   hasFiles, viaExecutor, amp, err, att, result, startedDemoted,
                   selections, ncalls, demotions, workerVars, rankVars>>

\* app.py:39: tagger = self._taggers[self._index]
ReadTagger(t) ==
    /\ pc[t] = "l39"
    /\ tagger' = [tagger EXCEPT ![t] = index]
    /\ selections' = Append(selections, index)
    /\ pc' = [pc EXCEPT ![t] = "l40"]
    /\ UNCHANGED <<is_gpu, gpu_parallelism, taggers, index, lock, queue,
                   hasFiles, viaExecutor, amp, err, att, result, startedDemoted,
                   ncalls, demotions, workerVars, rankVars>>

\* A cursor that a faulty advance leaves where it was.
NextIndexStuck(i, n) == i

\* app.py:40: (self._index + 1) % len(self._taggers)
NextIndex(i, n) == (i + 1) % n

AdvanceIndex(t) ==
    /\ pc[t] = "l40"
    /\ index' = NextIndex(index, NumTaggers)
    /\ pc' = [pc EXCEPT ![t] = "l41"]
    /\ UNCHANGED <<is_gpu, gpu_parallelism, taggers, lock, queue, tagger,
                   hasFiles, viaExecutor, amp, err, att, result, startedDemoted,
                   selections, ncalls, demotions, workerVars, rankVars>>

\* app.py:41: return tagger, leaving the with block (release).
Release(t) ==
    /\ pc[t] = "l41"
    /\ lock = t
    /\ lock' = 0
    /\ pc' = [pc EXCEPT ![t] = "l45"]
    /\ UNCHANGED <<is_gpu, gpu_parallelism, taggers, index, queue, tagger,
                   hasFiles, viaExecutor, amp, err, att, result, startedDemoted,
                   selections, ncalls, demotions, workerVars, rankVars>>

\* app.py:45-48: in cpu mode the caller runs tagger.predict itself; in gpu
\* mode it submits the call to the executor and waits for the future.
Dispatch(t) ==
    /\ pc[t] = "l45"
    /\ IF ~is_gpu
       THEN /\ pc' = [pc EXCEPT ![t] = "l58"]
            /\ viaExecutor' = [viaExecutor EXCEPT ![t] = FALSE]
            /\ startedDemoted' = [startedDemoted EXCEPT ![t] = FullyCpu(Tg(tagger[t]))]
            /\ queue' = queue
       ELSE /\ pc' = [pc EXCEPT ![t] = "queued"]
            /\ viaExecutor' = [viaExecutor EXCEPT ![t] = TRUE]
            /\ queue' = Append(queue, t)
            /\ UNCHANGED startedDemoted
    /\ UNCHANGED <<is_gpu, gpu_parallelism, taggers, index, lock, tagger,
                   hasFiles, amp, err, att, result, selections, ncalls,
                   demotions, workerVars, rankVars>>

\* An executor that keeps one of its workers back.
WorkerStartShort(t) ==
    /\ pc[t] = "queued"
    /\ queue # <<>> /\ Head(queue) = t
    /\ BusyWorkers < NumTaggers - 1
    /\ queue' = Tail(queue)
    /\ pc' = [pc EXCEPT ![t] = "l58"]
    /\ startedDemoted' = [startedDemoted EXCEPT ![t] = FullyCpu(Tg(tagger[t]))]
    /\ UNCHANGED <<is_gpu, gpu_parallelism, taggers, index, lock, tagger,
                   hasFiles, viaExecutor, amp, err, att, result, selections,
                   ncalls, demotions, workerVars, rankVars>>

\* A free worker thread of the executor takes the oldest waiting task and
\* calls tagger.predict(images, threshold, limit).
WorkerStart(t) ==
    /\ pc[t] = "queued"
    /\ queue # <<>> /\ Head(queue) = t
    /\ BusyWorkers < NumTaggers
    /\ queue' = Tail(queue)
    /\ pc' = [pc EXCEPT ![t] = "l58"]
    /\ startedDemoted' = [startedDemoted EXCEPT ![t] = FullyCpu(Tg(tagger[t]))]
    /\ UNCHANGED <<is_gpu, gpu_parallelism, taggers, index, lock, tagger,
                   hasFiles, viaExecutor, amp, err, att, result, selections,
                   ncalls, demotions, workerVars, rankVars>>

\* ------------------------------------------------------ Autotagger.predict
callVars == <<is_gpu, gpu_parallelism, index, lock, queue, tagger, hasFiles,
              viaExecutor, selections, ncalls, startedDemoted, workerVars, rankVars>>

SetTagger(i, f, v) == [taggers EXCEPT ![i + 1] = [@ EXCEPT ![f] = v]]

\* autotagger.py:58-66: no files, no scoring; else build the test loader.
L58(t) ==
    /\ pc[t] = "l58"
    /\ IF ~hasFiles[t]
       THEN /\ result' = [result EXCEPT ![t] = "empty"]
            /\ pc' = [pc EXCEPT ![t] = "done"]
       ELSE /\ pc' = [pc EXCEPT ![t] = "l69"]
            /\ UNCHANGED result
    /\ UNCHANGED <<callVars, taggers, amp, err, att, demotions>>

\* autotagger.py:69: if self.use_amp
L69(t) ==
    /\ pc[t] = "l69"
    /\ amp' = [amp EXCEPT ![t] = Tg(tagger[t]).use_amp]
    /\ pc' = [pc EXCEPT ![t] = "get_preds"]
    /\ UNCHANGED <<callVars, taggers, err, att, result, demotions>>

\* Where an exception raised inside the try block goes: a RuntimeError to
\* the handler at autotagger.py:74, any other class out of predict.
AfterFirstAttempt(o) ==
    CASE o = "ok" -> "l88"
      [] o \in {"cuda_err", "runtime_err"} -> "l76"
      [] OTHER -> "done"

\* autotagger.py:70-73: learn.get_preds, under autocast when amp was read true.
GetPreds(t) ==
    /\ pc[t] = "get_preds"
    /\ \E o \in Outcomes(Tg(tagger[t]), amp[t]) :
          /\ att' = [att EXCEPT ![t] = Append(@, o)]
          /\ err' = [err EXCEPT ![t] = IF o = "ok" THEN "none" ELSE o]
          /\ pc' = [pc EXCEPT ![t] = AfterFirstAttempt(o)]
          /\ result' = [result EXCEPT ![t] =
                           IF AfterFirstAttempt(o) = "done" THEN o ELSE @]
    /\ UNCHANGED <<callVars, taggers, amp, demotions>>

\* A handler that takes the fallback for any RuntimeError on the accelerator.
IsDeviceFaultAnyError(tg, e) == tg.device = "cuda"

\* autotagger.py:76: the fallback is taken only for an accelerator error
\* seen while self.device is still the accelerator.
IsDeviceFault(tg, e) == ~(tg.device # "cuda" \/ e # "cuda_err")

L76(t) ==
    /\ pc[t] = "l76"
    /\ IF IsDeviceFault(Tg(tagger[t]), err[t])
       THEN /\ pc' = [pc EXCEPT ![t] = "l78"]
            /\ UNCHANGED result
       ELSE /\ pc' = [pc EXCEPT ![t] = "done"]
            /\ result' = [result EXCEPT ![t] = err[t]]
    /\ UNCHANGED <<callVars, taggers, amp, err, att, demotions>>

\* A fallback that switches the device of every replica of the pool.
L78Pool(t) ==
    /\ pc[t] = "l78"
    /\ taggers' = [i \in 1..Len(taggers) |-> [taggers[i] EXCEPT !.device = "cpu"]]
    /\ demotions' = [demotions EXCEPT ![tagger[t] + 1] = @ + 1]
    /\ pc' = [pc EXCEPT ![t] = "l79"]
    /\ UNCHANGED <<callVars, amp, err, att, result>>

\* autotagger.py:78: self.device = torch.device("cpu")
L78(t) ==
    /\ pc[t] = "l78"
    /\ taggers' = SetTagger(tagger[t], "device", "cpu")
    /\ demotions' = [demotions EXCEPT ![tagger[t] + 1] = @ + 1]
    /\ pc' = [pc EXCEPT ![t] = "l79"]
    /\ UNCHANGED <<callVars, amp, err, att, result>>

\* A fallback that leaves mixed precision switched on.
L79KeepAmp(t) ==
    /\ pc[t] = "l79"
    /\ pc' = [pc EXCEPT ![t] = "l80"]
    /\ UNCHANGED <<callVars, taggers, amp, err, att, result, demotions>>

\* autotagger.py:79: self.use_amp = False
L79(t) ==
    /\ pc[t] = "l79"
    /\ taggers' = SetTagger(tagger[t], "use_amp", FALSE)
    /\ pc' = [pc EXCEPT ![t] = "l80"]
    /\ UNCHANGED <<callVars, amp, err, att, result, demotions>>

\* autotagger.py:80: self.num_workers = 0
L80(t) ==
    /\ pc[t] = "l80"
    /\ taggers' = SetTagger(tagger[t], "num_workers", 0)
    /\ pc' = [pc EXCEPT ![t] = "l81"]
    /\ UNCHANGED <<callVars, amp, err, att, result, demotions>>

\* autotagger.py:81: self.learn.dls.to(self.device)
L81(t) ==
    /\ pc[t] = "l81"
    /\ taggers' = SetTagger(tagger[t], "dls_dev", Tg(tagger[t]).device)
    /\ pc' = [pc EXCEPT ![t] = "l82"]
    /\ UNCHANGED <<callVars, amp, err, att, result, demotions>>

\* autotagger.py:82-84: self.learn.model.to(self.device), the warning, and
\* the loader of the retry.
L82(t) ==
    /\ pc[t] = "l82"
    /\ taggers' = SetTagger(tagger[t], "model_dev", Tg(tagger[t]).device)
    /\ pc' = [pc EXCEPT ![t] = "l86"]
    /\ UNCHANGED <<callVars, amp, err, att, result, demotions>>

\* A retry that, having succeeded, puts the replica back on the accelerator.
L86Restore(t) ==
    /\ pc[t] = "l86"
    /\ \E o \in Outcomes(Tg(tagger[t]), FALSE) :
          /\ att' = [att EXCEPT ![t] = Append(@, o)]
          /\ err' = [err EXCEPT ![t] = IF o = "ok" THEN "none" ELSE o]
          /\ pc' = [pc EXCEPT ![t] = IF o = "ok" THEN "l88" ELSE "done"]
          /\ result' = [result EXCEPT ![t] = IF o = "ok" THEN @ ELSE o]
          /\ taggers' = IF o = "ok"
                        THEN [taggers EXCEPT ![tagger[t] + 1] = InitTagger(TRUE)]
                        ELSE taggers
    /\ UNCHANGED <<callVars, amp, demotions>>

\* A retry that sits inside the try block again: its RuntimeError is handled
\* like the first one.
L86Again(t) ==
    /\ pc[t] = "l86"
    /\ \E o \in Outcomes(Tg(tagger[t]), FALSE) :
          /\ att' = [att EXCEPT ![t] = Append(@, o)]
          /\ err' = [err EXCEPT ![t] = IF o = "ok" THEN "none" ELSE o]
          /\ pc' = [pc EXCEPT ![t] = IF o = "ok" THEN "l88"
                                     ELSE IF o = "runtime_err" THEN "l86" ELSE "done"]
          /\ result' = [result EXCEPT ![t] =
                           IF o \in {"ok", "runtime_err"} THEN @ ELSE o]
    /\ UNCHANGED <<callVars, taggers, amp, demotions>>

\* autotagger.py:85-86: the one retry, outside any try block: whatever it
\* raises leaves predict.
L86(t) ==
    /\ pc[t] = "l86"
    /\ \E o \in Outcomes(Tg(tagger[t]), FALSE) :
          /\ att' = [att EXCEPT ![t] = Append(@, o)]
          /\ err' = [err EXCEPT ![t] = IF o = "ok" THEN "none" ELSE o]
          /\ pc' = [pc EXCEPT ![t] = IF o = "ok" THEN "l88" ELSE "done"]
          /\ result' = [result EXCEPT ![t] = IF o = "ok" THEN @ ELSE o]
    /\ UNCHANGED <<callVars, taggers, amp, demotions>>

\* autotagger.py:88-93: rank the scores of each image and return the list.
L88(t) ==
    /\ pc[t] = "l88"
    /\ result' = [result EXCEPT ![t] = "ok"]
    /\ pc' = [pc EXCEPT ![t] = "done"]
    /\ UNCHANGED <<callVars, taggers, amp, err, att, demotions>>

\* app.py:46 / app.py:49: the caller gets the list, or the exception the
\* call raised, and leaves AutotaggerRunner.predict; a list is rendered as
\* html or json (app.py:77-85), an exception goes to the error handler.
Return(t) ==
    /\ pc[t] = "done"
    /\ pc' = [pc EXCEPT ![t] = "idle"]
    /\ tagger' = [tagger EXCEPT ![t] = NoTagger]
    /\ hasFiles' = [hasFiles EXCEPT ![t] = FALSE]
    /\ viaExecutor' = [viaExecutor EXCEPT ![t] = FALSE]
    /\ amp' = [amp EXCEPT ![t] = FALSE]
    /\ err' = [err EXCEPT ![t] = "none"]
    /\ att' = [att EXCEPT ![t] = <<>>]
    /\ result' = [result EXCEPT ![t] = "none"]
    /\ startedDemoted' = [startedDemoted EXCEPT ![t] = FALSE]
    /\ UNCHANGED <<is_gpu, gpu_parallelism, taggers, index, lock, queue,
                   selections, ncalls, demotions, workerVars, rankVars>>

\* app.py:77-87: autotagger.predict has returned its list, and only now the
\* format is looked at; one that is neither html nor json is aborted with 400.
L87(t) ==
    /\ pc[t] = "done"
    /\ result[t] \in {"ok", "empty"}
    /\ pc' = [pc EXCEPT ![t] = "l87"]
    /\ hasFiles' = [hasFiles EXCEPT ![t] = FALSE]
    /\ viaExecutor' = [viaExecutor EXCEPT ![t] = FALSE]
    /\ amp' = [amp EXCEPT ![t] = FALSE]
    /\ err' = [err EXCEPT ![t] = "none"]
    /\ result' = [result EXCEPT ![t] = "none"]
    /\ startedDemoted' = [startedDemoted EXCEPT ![t] = FALSE]
    /\ UNCHANGED <<is_gpu, gpu_parallelism, taggers, index, lock, queue, tagger,
                   att, selections, ncalls, demotions, workerVars, rankVars>>

\* app.py:89-103: the error handler answers the rejected request.
ErrorResponse(t) ==
    /\ pc[t] \in {"l70", "l87"}
    /\ pc' = [pc EXCEPT ![t] = "idle"]
    /\ tagger' = [tagger EXCEPT ![t] = NoTagger]
    /\ att' = [att EXCEPT ![t] = <<>>]
    /\ UNCHANGED <<is_gpu, gpu_parallelism, taggers, index, lock, queue,
                   hasFiles, viaExecutor, amp, err, result, startedDemoted,
                   selections, ncalls, demotions, workerVars, rankVars>>

Next ==
    \E t \in Callers :
        \/ BadNumber(t) \/ L87(t) \/ ErrorResponse(t)
        \/ Call(t) \/ Acquire(t) \/ ReadTagger(t) \/ AdvanceIndex(t) \/ Release(t)
        \/ Dispatch(t) \/ WorkerStart(t)
        \/ L58(t) \/ L69(t) \/ GetPreds(t) \/ L76(t)
        \/ L78(t) \/ L79(t) \/ L80(t) \/ L81(t) \/ L82(t) \/ L86(t) \/ L88(t)
        \/ Return(t)

Spec == Init /\ [][Next]_vars

\* The steps that serve caller t's request once it has arrived: the
\* caller's own thread and the executor's worker running its task.
Serve(t) ==
    \/ L87(t) \/ ErrorResponse(t)
    \/ Acquire(t) \/ ReadTagger(t) \/ AdvanceIndex(t) \/ Release(t)
    \/ Dispatch(t) \/ WorkerStart(t)
    \/ L58(t) \/ L69(t) \/ GetPreds(t) \/ L76(t)
    \/ L78(t) \/ L79(t) \/ L80(t) \/ L81(t) \/ L82(t) \/ L86(t) \/ L88(t)
    \/ Return(t)

\* Every thread that can take a step is scheduled in the end, the executor's
\* workers included, and a call of get_preds comes to an end; requests
\* arrive as they like.
FairSpec == Spec /\ \A t \in Callers : WF_vars(Serve(t))

\* ================================================= inference_worker.py, main
\* A line of the input stream: its white space (the end of line, with or
\* without spaces; the last line may have none) around its text, which is
\* empty, not JSON, JSON but no object, or a JSON object with its fields.
WhiteSpace == {"", "nl", "sp_nl"}
Ids == {"a", "b"}
ObjectLines ==
    [ws : WhiteSpace, kind : {"object"}, id : Ids \cup {"absent"},
     files : {"absent", "empty", "ok", "unreadable"},
     threshold : {"ok", "bad"}, limit : {"ok", "bad"}]
OtherLines ==
    [ws : WhiteSpace, kind : {"empty", "badjson", "nonobject"}, id : {"-"},
     files : {"-"}, threshold : {"-"}, limit : {"-"}]
Lines == (ObjectLines \cup OtherLines) \ {l \in OtherLines : l.kind = "empty" /\ l.ws = ""}

\* What a line is, whatever the code makes of it: blank when it holds white
\* space only, and the id its request states, None when it states none.
IsBlank(l) == l.kind = "empty"
StatedId(l) == IF l.kind = "object" /\ l.id # "absent" THEN l.id ELSE "None"

\* The line is a request whose threshold and limit are numbers and whose
\* files, if any, can be opened.
IsValid(l) ==
    /\ l.kind = "object"
    /\ l.threshold = "ok" /\ l.limit = "ok"
    /\ l.files # "unreadable"

\* A strip that leaves the line as read.
StripNothing(l) == l

\* inference_worker.py:38: line.strip()
Strip(l) == [l EXCEPT !.ws = ""]

\* inference_worker.py:39: `not line`: the empty string.
Falsy(l) == l.kind = "empty" /\ l.ws = ""

\* autotagger.py:78-82, run by one thread with no other on the replica.
FallbackTagger(tg) ==
    [tg EXCEPT !.device = "cpu", !.use_amp = FALSE, !.num_workers = 0,
               !.dls_dev = "cpu", !.model_dev = "cpu"]

\* Autotagger.predict (autotagger.py:57-93) run from start to end by the
\* worker's only thread: the replica it leaves, what it returns or raises,
\* and the outcomes of its get_preds calls.
ScoringRuns(tg) ==
    UNION {
       IF o1 \in {"cuda_err", "runtime_err"} /\ IsDeviceFault(tg, o1)
       THEN {[tg |-> FallbackTagger(tg), res |-> o2, att |-> <<o1, o2>>] :
                o2 \in Outcomes(FallbackTagger(tg), FALSE)}
       ELSE {[tg |-> tg, res |-> o1, att |-> <<o1>>]} :
       o1 \in Outcomes(tg, tg.use_amp)}

\* A predict that goes to the model even for an empty list of files.
PredictRunsAlways(tg, nonEmpty) == ScoringRuns(tg)

PredictRuns(tg, nonEmpty) ==
    IF ~nonEmpty
    THEN {[tg |-> tg, res |-> "empty", att |-> <<>>]}
    ELSE ScoringRuns(tg)

\* The request's list of files: none, or two paths.
FileCount(f) == IF f = "ok" THEN 2 ELSE 0

\* inference_worker.py:23-26: the names of the files, in the list's order.
Names(f) == [i \in 1..FileCount(f) |-> <<"name", i>>]

\* autotagger.py:59 / 88-93: no results for no files; else one result per
\* row of the batch, in the order of the images.
Results(res, k) == IF res = "empty" THEN <<>> ELSE [i \in 1..k |-> <<"tags", i>>]

\* inference_worker.py:31: zip(names, predictions) pairs position by
\* position and stops at the shorter of the two.
Zip(names, predictions) ==
    [i \in 1..Min(Len(names), Len(predictions)) |->
        [filename |-> names[i], tags |-> predictions[i]]]

\* build_tagger (inference_worker.py:35), then the stream is opened.
WInit ==
    /\ PoolInit /\ ~is_gpu /\ gpu_parallelism = 1
    /\ wpc = "for" /\ wlen \in 0..MaxLines /\ wread = 0 /\ wline = NoLine
    /\ req_id = "None" /\ wreq = NoLine /\ werr = "none" /\ wres = NoRes
    /\ wout = <<>> /\ wrc = Running /\ wlog = <<>>
    /\ wtagger \in {InitTagger(TRUE), InitTagger(FALSE)}
    /\ RankOff

\* inference_worker.py:37-40: the next line is read and stripped; a blank
\* one is skipped.
WRead ==
    /\ wpc = "for"
    /\ wread < wlen
    /\ \E l \in Lines :
          /\ wread' = wread + 1
          /\ wlog' = Append(wlog, [blank |-> IsBlank(l), id |-> StatedId(l),
                                   valid |-> IsValid(l), files |-> l.files])
          /\ wline' = Strip(l)
          /\ wpc' = IF Falsy(Strip(l)) THEN "for" ELSE "l42"
    /\ UNCHANGED <<poolVars, rankVars, wlen, req_id, wreq, werr, wres, wout, wtagger, wrc>>

\* A request that keeps the req_id of the line before.
W42Keep ==
    /\ wpc = "l42"
    /\ wpc' = "l44"
    /\ UNCHANGED <<poolVars, rankVars, wlen, wread, wline, req_id, wreq, werr, wres, wout,
                   wtagger, wrc, wlog>>

\* inference_worker.py:42: req_id = None
W42 ==
    /\ wpc = "l42"
    /\ req_id' = "None"
    /\ wpc' = "l44"
    /\ UNCHANGED <<poolVars, rankVars, wlen, wread, wline, wreq, werr, wres, wout,
                   wtagger, wrc, wlog>>

\* inference_worker.py:44: req = json.loads(line); text that is no JSON
\* value, white space included, raises.
W44 ==
    /\ wpc = "l44"
    /\ IF wline.kind \in {"badjson", "empty"}
       THEN /\ werr' = "JSONDecodeError" /\ wpc' = "l53" /\ UNCHANGED wreq
       ELSE /\ wreq' = wline /\ wpc' = "l45" /\ UNCHANGED werr
    /\ UNCHANGED <<poolVars, rankVars, wlen, wread, wline, req_id, wres, wout, wtagger,
                   wrc, wlog>>

\* inference_worker.py:45: req_id = req.get("id"); a value that is no
\* object has no get.
W45 ==
    /\ wpc = "l45"
    /\ IF wreq.kind # "object"
       THEN /\ werr' = "AttributeError" /\ wpc' = "l53" /\ UNCHANGED req_id
       ELSE /\ req_id' = (IF wreq.id = "absent" THEN "None" ELSE wreq.id)
            /\ wpc' = "l46"
            /\ UNCHANGED werr
    /\ UNCHANGED <<poolVars, rankVars, wlen, wread, wline, wreq, wres, wout, wtagger,
                   wrc, wlog>>

\* inference_worker.py:46-48: files, float(threshold), int(limit).
W46 ==
    /\ wpc = "l46"
    /\ IF wreq.threshold = "bad" \/ wreq.limit = "bad"
       THEN /\ werr' = "ValueError" /\ wpc' = "l53"
       ELSE /\ wpc' = "l50" /\ UNCHANGED werr
    /\ UNCHANGED <<poolVars, rankVars, wlen, wread, wline, req_id, wreq, wres, wout,
                   wtagger, wrc, wlog>>

\* inference_worker.py:50-51: predict_files opens the files, calls
\* tagger.predict and pairs names with predictions; res holds them.
W50 ==
    /\ wpc = "l50"
    /\ IF wreq.files = "unreadable"
       THEN /\ werr' = "OSError" /\ wpc' = "l53" /\ UNCHANGED <<wres, wtagger>>
       ELSE \E run \in PredictRuns(wtagger, FileCount(wreq.files) > 0) :
               /\ wtagger' = run.tg
               /\ IF run.res \in {"ok", "empty"}
                  THEN /\ wres' =
                            LET predictions ==
                                    Zip(Names(wreq.files),
                                        Results(run.res, FileCount(wreq.files)))
                            IN  [id |-> req_id, kind |-> "predictions",
                                 n |-> Len(predictions), preds |-> predictions,
                                 calls |-> Len(run.att)]
                       /\ wpc' = "l55"
                       /\ UNCHANGED werr
                  ELSE /\ werr' = run.res /\ wpc' = "l53" /\ UNCHANGED wres
    /\ UNCHANGED <<poolVars, rankVars, wlen, wread, wline, req_id, wreq, wout, wrc, wlog>>

\* A handler that lets the exception end main.
W53Exit ==
    /\ wpc = "l53"
    /\ wpc' = "crashed"
    /\ wrc' = 1
    /\ UNCHANGED <<poolVars, rankVars, wlen, wread, wline, req_id, wreq, werr, wres, wout,
                   wtagger, wlog>>

\* inference_worker.py:52-53: except Exception: res = {"id": req_id, "error": ...}
W53 ==
    /\ wpc = "l53"
    /\ wres' = [id |-> req_id, kind |-> werr, n |-> 0, preds |-> <<>>, calls |-> 0]
    /\ wpc' = "l55"
    /\ UNCHANGED <<poolVars, rankVars, wlen, wread, wline, req_id, wreq, werr, wout,
                   wtagger, wrc, wlog>>

\* inference_worker.py:55-56: the response line is written and flushed, and
\* the loop goes on to the next line.  line, req and res are assigned anew
\* before their next use, so their old values are dropped here; req_id is
\* kept, as it is only inference_worker.py:42 that resets it.
W55 ==
    /\ wpc = "l55"
    /\ wout' = Append(wout, [id |-> wres.id, kind |-> wres.kind, n |-> wres.n,
                             preds |-> wres.preds, calls |-> wres.calls,
                             line |-> wread])
    /\ wpc' = "for"
    /\ werr' = "none"
    /\ wline' = NoLine
    /\ wreq' = NoLine
    /\ wres' = NoRes
    /\ UNCHANGED <<poolVars, rankVars, wlen, wread, req_id, wtagger, wrc, wlog>>

\* inference_worker.py:58: the stream has ended; return 0.
WExit ==
    /\ wpc = "for"
    /\ wread = wlen
    /\ wpc' = "exit"
    /\ wrc' = 0
    /\ UNCHANGED <<poolVars, rankVars, wlen, wread, wline, req_id, wreq, werr, wres, wout,
                   wtagger, wlog>>

WNext == WRead \/ W42 \/ W44 \/ W45 \/ W46 \/ W50 \/ W53 \/ W55 \/ WExit

WorkerSpec == WInit /\ [][WNext]_vars

\* The worker is one thread that runs whenever it can: a read returns (a
\* line or the end of the stream) and a scoring call ends.
WorkerFairSpec == WorkerSpec /\ WF_vars(WNext)

\* ---------------------------------------------------------- _process_scores
\* The vocabulary: learn.dls.vocab is a fastai CategoryMap, whose entries are
\* distinct; a tag is named by its position.
Vocab(n) == [i \in 1..n |-> i]

\* A call of _process_scores on some scores, threshold and limit.  int() of
\* a negative limit is possible too, but head(-k) is another operation; the
\* callers' default is 50, and the limits here are 0 and up.
RankInit ==
    /\ PoolInit /\ ~is_gpu /\ gpu_parallelism = 1
    /\ WorkerOff
    /\ rpc = "l12"
    /\ \E n \in 0..MaxVocab : scores \in [1..n -> 0..MaxScore]
    /\ threshold \in 0..(MaxScore + 1)
    /\ limit \in 0..(MaxVocab + 1)
    /\ df = <<>> /\ rout = <<>>

\* Line 12: one row per vocabulary entry, the tag beside its score.
R12 ==
    /\ rpc = "l12"
    /\ df' = [i \in 1..Len(scores) |-> [tag |-> Vocab(Len(scores))[i], score |-> scores[i]]]
    /\ rpc' = "filter"
    /\ UNCHANGED <<poolVars, workerVars, scores, threshold, limit, rout>>

\* df.score >= threshold, with a strict comparison.
KeepStrict(s, th) == s > th

\* Line 13: df.score >= threshold.
Keep(s, th) == s >= th

\* Line 13: df[mask] keeps the rows of the mask in their order.
RFilter ==
    /\ rpc = "filter"
    /\ df' = SelectSeq(df, LAMBDA r : Keep(r.score, threshold))
    /\ rpc' = "sort"
    /\ UNCHANGED <<poolVars, workerVars, scores, threshold, limit, rout>>

Orderings(n) == {p \in [1..n -> 1..n] : \A i, j \in 1..n : i # j => p[i] # p[j]}

\* sort_values("score", ascending=False) with the default kind, quicksort,
\* which is not a stable sort: every arrangement of the rows whose scores do
\* not increase is a possible outcome.
SortedDescending(rows) ==
    {[i \in 1..Len(rows) |-> rows[p[i]]] : p \in
        {q \in Orderings(Len(rows)) :
            \A i \in 1..(Len(rows) - 1) : rows[q[i]].score >= rows[q[i + 1]].score}}

\* Line 13: .sort_values("score", ascending=False).
RSort ==
    /\ rpc = "sort"
    /\ df' \in SortedDescending(df)
    /\ rpc' = "head"
    /\ UNCHANGED <<poolVars, workerVars, scores, threshold, limit, rout>>

\* Line 13: .head(limit), the first `limit` rows (all of them if fewer).
RHead ==
    /\ rpc = "head"
    /\ df' = SubSeq(df, 1, Min(limit, Len(df)))
    /\ rpc' = "l14"
    /\ UNCHANGED <<poolVars, workerVars, scores, threshold, limit, rout>>

\* dict(pairs): a key seen again keeps its place and takes the new value.
RECURSIVE DictOf(_)
DictOf(rows) ==
    IF rows = <<>> THEN <<>>
    ELSE LET front == DictOf(SubSeq(rows, 1, Len(rows) - 1))
             last == rows[Len(rows)]
         IN  IF \E j \in 1..Len(front) : front[j].tag = last.tag
             THEN [j \in 1..Len(front) |->
                      IF front[j].tag = last.tag THEN last ELSE front[j]]
             ELSE Append(front, last)

\* Line 14: return dict(zip(df.tag, df.score)).
R14 ==
    /\ rpc = "l14"
    /\ rout' = DictOf(df)
    /\ rpc' = "done"
    /\ UNCHANGED <<poolVars, workerVars, scores, threshold, limit, df>>

RNext == R12 \/ RFilter \/ RSort \/ RHead \/ R14

RankSpec == RankInit /\ [][RNext]_vars

\* ================================================================ claims
Replicas == 1..NumTaggers
InScoring(t) == pc[t] \in ScoringPCs

\* C1: the k-th selection, in the order the lock hands replicas out, is the
\* replica at index k mod N (k from 0), whatever the callers' interleaving,
\* and the cursor is always a valid index 0..N-1.
C1_RoundRobin ==
    /\ index \in 0..(NumTaggers - 1)
    /\ \A k \in 1..Len(selections) : selections[k] = (k - 1) % NumTaggers

\* N+1 selections made on a pool of N >= 2 replicas, the last one back on
\* replica 0, while an earlier call is still scoring.
C1_Witness ==
    /\ NumTaggers >= 2
    /\ Len(selections) = NumTaggers + 1
    /\ selections[NumTaggers + 1] = 0
    /\ \E t \in Callers : InScoring(t)

TransitionComplete(i) == demotions[i] > 0 /\ FullyCpu(taggers[i])

C4_OneWay ==
    [][/\ Len(taggers') = Len(taggers)
       /\ is_gpu' = is_gpu
       /\ \A i \in Replicas :
             /\ taggers[i].device = "cpu" => taggers'[i].device = "cpu"
             /\ ~taggers[i].use_amp => ~taggers'[i].use_amp
             /\ taggers[i].dls_dev = "cpu" => taggers'[i].dls_dev = "cpu"
             /\ taggers[i].model_dev = "cpu" => taggers'[i].model_dev = "cpu"]_vars

\* After a replica's fallback, a later call on it returned scores with no
\* fault, and the replica is still on the general-purpose device.
C4_Witness ==
    \E t \in Callers :
        /\ is_gpu /\ startedDemoted[t] /\ pc[t] = "done" /\ result[t] = "ok"
        /\ FullyCpu(Tg(tagger[t]))

\* C5: a request makes at most two scoring attempts, the second only after
\* an accelerator error of the first; when both fail the caller gets the
\* second error.
C5_AtMostOneRetry ==
    \A t \in Callers :
        /\ Len(att[t]) <= 2
        /\ Len(att[t]) = 2 => att[t][1] = "cuda_err"
        /\ (pc[t] = "done" /\ Len(att[t]) = 2 /\ att[t][2] # "ok")
              => result[t] = att[t][2]

\* A request whose first attempt and whose retry both failed has returned
\* the retry's error.
C5_Witness ==
    \E t \in Callers :
        /\ pc[t] = "done" /\ Len(att[t]) = 2
        /\ att[t][2] \in {"runtime_err", "other_err"}
        /\ result[t] = att[t][2]

\* C6: no request whose scoring call failed with a device fault returns
\* that error without having made its one retry.
C6_RetriedBeforeError ==
    \A t \in Callers :
        (pc[t] = "done" /\ att[t] # <<>> /\ att[t][1] = "cuda_err")
            => Len(att[t]) = 2

\* C7: the fallback of a replica runs once: no two requests are inside it
\* together and none runs it again.
C7_TransitionOnce ==
    /\ \A i \in Replicas : demotions[i] <= 1
    /\ \A t1, t2 \in Callers :
          (t1 # t2 /\ pc[t1] \in TransitionPCs /\ pc[t2] \in TransitionPCs)
              => tagger[t1] # tagger[t2]

\* C13: a request rejected for a bad threshold, limit or format has taken no
\* replica from the cursor and has made no scoring call.
C13_InputErrorTouchesNothing ==
    \A t \in Callers :
        pc[t] \in {"l70", "l87"} => (tagger[t] = NoTagger /\ att[t] = <<>>)

\* C14: in cpu mode at most one scoring call is executing at any time.
C14_FallbackSequential ==
    ~is_gpu => Cardinality({t \in Callers : InScoring(t)}) <= 1

\* C16: in cpu mode the pool holds exactly one replica whatever the
\* configured parallelism, and no call goes through the executor.
C16_FallbackSingleReplica ==
    ~is_gpu =>
        /\ NumTaggers = 1
        /\ index = 0
        /\ queue = <<>>
        /\ \A t \in Callers : ~viaExecutor[t] /\ pc[t] # "queued"

\* A cpu-mode pool configured for two replicas, a call scoring on its only
\* replica after an earlier call has been served.
C16_Witness ==
    /\ ~is_gpu /\ gpu_parallelism >= 2
    /\ Len(selections) >= 2
    /\ \E t \in Callers : InScoring(t) /\ tagger[t] = 0

OwnOutcome(t) ==
    IF att[t] = <<>> THEN "empty" ELSE att[t][Len(att[t])]

\* C18: in gpu mode a caller is handed nothing while its submission waits
\* or runs, and then the outcome of its own submission; every call of
\* AutotaggerRunner.predict returns, more callers than replicas or not.
C18_OwnOutcomeAndReturns ==
    /\ [](is_gpu => \A t \in Callers :
             /\ pc[t] \in ({"queued"} \cup ScoringPCs) => (viaExecutor[t] /\ result[t] = "none")
             /\ pc[t] = "done" => (viaExecutor[t] /\ result[t] = OwnOutcome(t)))
    /\ \A t \in Callers : (pc[t] = "l38") ~> (pc[t] = "done")

\* Every worker of the executor is busy and one more request waits in
\* its queue.
C18_Witness ==
    /\ is_gpu
    /\ BusyWorkers = NumTaggers
    /\ \E t \in Callers : pc[t] = "queued" /\ Head(queue) = t

\* C19: a failure that is no accelerator error, or that is seen when the
\* replica's device is no longer the accelerator, goes to the caller as it
\* is, after one attempt, and the step that propagates it leaves every
\* replica, the cursor and the mode as they are.
C19_OtherErrorsPropagate ==
    /\ [](\A t \in Callers :
             /\ (pc[t] = "done" /\ att[t] # <<>> /\ att[t][1] \in {"runtime_err", "other_err"})
                    => (att[t] = <<att[t][1]>> /\ result[t] = att[t][1])
             /\ pc[t] \in {"l78", "l79", "l80", "l81", "l82", "l86"}
                    => att[t][1] = "cuda_err")
    /\ [][\A t \in Callers :
             (/\ pc[t] = "l76" /\ pc'[t] # "l76"
              /\ (err[t] # "cuda_err" \/ Tg(tagger[t]).device # "cuda"))
                => /\ pc'[t] = "done" /\ result'[t] = err[t] /\ att'[t] = <<err[t]>>
                   /\ taggers' = taggers /\ index' = index /\ is_gpu' = is_gpu]_vars

\* A RuntimeError that is no accelerator error, raised on a replica that is
\* on the accelerator, has reached the caller after a single attempt.
C19_Witness ==
    \E t \in Callers :
        /\ pc[t] = "done" /\ att[t] = <<"runtime_err">> /\ result[t] = "runtime_err"
        /\ Tg(tagger[t]).device = "cuda" /\ Tg(tagger[t]).use_amp

\* C20: whenever a call looks at a replica's use_amp it finds it true only
\* with the replica's device on the accelerator, and no call runs get_preds
\* under autocast on a replica whose device is the cpu.
C20_AmpOnlyOnAccelerator ==
    \A t \in Callers :
        /\ pc[t] = "l69" =>
               (Tg(tagger[t]).use_amp => Tg(tagger[t]).device = "cuda")
        /\ (pc[t] = "get_preds" /\ amp[t]) => Tg(tagger[t]).device = "cuda"

\* ------------------------------------------------------ worker's claims
\* The lines main is done with: all those read, but the one in hand.
WHandled == IF wpc \in {"for", "exit"} THEN wread ELSE wread - 1

\* C8: one response line per non-blank input line, none per blank line,
\* in the order of the lines, each written before the next line is read.
C8_OneResponsePerLine ==
    /\ Len(wout) = Cardinality({k \in 1..WHandled : ~wlog[k].blank})
    /\ \A j \in 1..Len(wout) : wout[j].line \in 1..WHandled /\ ~wlog[wout[j].line].blank
    /\ \A j, k \in 1..Len(wout) : j < k => wout[j].line < wout[k].line

\* A blank line was skipped and the line after it answered.
C8_Witness ==
    /\ Len(wlog) = 2 /\ Len(wout) = 1 /\ wpc = "for"
    /\ wlog[1].blank /\ ~wlog[2].blank
    /\ wout[1].line = 2

\* C9: a response carries the id its own line states (None when the line
\* states none or cannot be parsed as a request), on success and on error.
C9_IdRoundTrip ==
    \A j \in 1..Len(wout) : wout[j].id = wlog[wout[j].line].id

\* After a request with id "a" that failed once its id was read, and was
\* answered with an error carrying "a", an unparsable line was answered
\* with an error carrying None.
C9_Witness ==
    /\ Len(wout) = 2
    /\ wout[1].id = "a" /\ wout[1].kind \in {"ValueError", "OSError", "cuda_err",
                                            "runtime_err", "other_err"}
    /\ wout[2].id = "None" /\ wout[2].kind \in {"JSONDecodeError", "AttributeError"}

\* C10: main ends only at the end of the stream, returning 0 with every
\* line consumed, and on every finite stream it does end.
C10_ExitsOnlyAtEnd ==
    /\ [](wpc \notin {"for", "l42", "l44", "l45", "l46", "l50", "l53", "l55"}
            => (wpc = "exit" /\ wrc = 0 /\ wread = wlen))
    /\ <>(wpc = "exit")

\* main has returned 0 after a line that failed was followed by another
\* line that was answered.
C10_Witness ==
    /\ wpc = "exit" /\ wrc = 0 /\ wread = wlen
    /\ Len(wout) >= 2
    /\ wout[1].kind \notin {"predictions"}
    /\ wout[2].kind = "predictions"

\* C15: a valid request with no files is answered with its id and an empty
\* list of predictions, the model not being called; every list of
\* predictions has one entry per file of its request, the k-th entry
\* pairing the k-th file's name with the k-th image's result.
C15_EmptyAndAligned ==
    \A j \in 1..Len(wout) :
        LET l == wlog[wout[j].line] IN
        /\ (l.valid /\ FileCount(l.files) = 0) =>
               /\ wout[j].kind = "predictions"
               /\ wout[j].preds = <<>>
               /\ wout[j].id = l.id
               /\ wout[j].calls = 0
        /\ wout[j].kind = "predictions" =>
               /\ l.valid
               /\ Len(wout[j].preds) = FileCount(l.files)
               /\ \A k \in 1..Len(wout[j].preds) :
                      /\ wout[j].preds[k].filename = Names(l.files)[k]
                      /\ wout[j].preds[k].tags = <<"tags", k>>

\* A request with id "a" and an empty list of files was answered by a
\* replica on the accelerator, then a request with two files was answered
\* with two predictions.
C15_Witness ==
    /\ Len(wout) = 2
    /\ wlog[wout[1].line].files = "empty" /\ wout[1].id = "a"
    /\ wout[1].kind = "predictions" /\ wout[1].preds = <<>>
    /\ wtagger.device = "cuda"
    /\ wout[2].kind = "predictions" /\ Len(wout[2].preds) = 2

\* ----------------------------------------------------- _process_scores' claims
Passing == {i \in 1..Len(scores) : scores[i] >= threshold}

ReturnedTags == {rout[j].tag : j \in 1..Len(rout)}

\* C11: the returned mapping holds exactly the tags whose score is at least
\* the threshold (inclusive), each with its own score, in order of
\* non-increasing score, cut to the `limit` highest; a limit of 0 gives an
\* empty mapping.
C11_RankedTopLimit ==
    rpc = "done" =>
        /\ Len(rout) = Min(limit, Cardinality(Passing))
        /\ Cardinality(ReturnedTags) = Len(rout)
        /\ ReturnedTags \subseteq Passing
        /\ \A j \in 1..Len(rout) : rout[j].score = scores[rout[j].tag]
        /\ \A j \in 1..(Len(rout) - 1) : rout[j].score >= rout[j + 1].score
        /\ \A i \in Passing \ ReturnedTags :
               \A j \in 1..Len(rout) : scores[i] <= rout[j].score
        /\ (limit = 0 => rout = <<>>)

\* A finished call where the limit cut passing tags away, a score equal to
\* the threshold was returned, and a score below the threshold was dropped.
C11_Witness ==
    /\ rpc = "done"
    /\ limit >= 1 /\ Len(rout) = limit
    /\ Cardinality(Passing) > limit
    /\ \E j \in 1..Len(rout) : rout[j].score = threshold
    /\ \E i \in 1..Len(scores) : scores[i] < threshold

\* C12: ties in score come out in vocabulary order, both among the tags
\* returned and at the cut of the limit.
C12_TiesInVocabularyOrder ==
    rpc = "done" =>
        /\ \A j, k \in 1..Len(rout) :
               (j < k /\ rout[j].score = rout[k].score) => rout[j].tag < rout[k].tag
        /\ \A i \in Passing \ ReturnedTags : \A j \in 1..Len(rout) :
               rout[j].score = scores[i] => rout[j].tag < i

====
